---- MODULE Spec2Model ----
(***************************************************************************)
(* Model of the picoleaf Nanoleaf client: the Client operations that PUT a *)
(* partial State object to the device, and the rgbToHSL colour conversion  *)
(* they rely on.  rgbToHSL is computed in IEEE-754 binary64 (Go float64)   *)
(* arithmetic, modelled bit-exactly on arbitrary-precision naturals.       *)
(***************************************************************************)
EXTENDS Integers, Sequences, FiniteSets, TLC

(***************************************************************************)
(* Arbitrary-precision naturals: little-endian sequences of limbs below    *)
(* Radix, without high zero limbs (zero is the empty sequence).  They      *)
(* carry the 53-bit significands of float64 values and the wider exact     *)
(* results that are then rounded to 53 bits.                               *)
(***************************************************************************)
Radix == 2^15

RECURSIVE BigNorm(_)
BigNorm(a) ==
    IF a = <<>> THEN <<>>
    ELSE IF a[Len(a)] = 0 THEN BigNorm(SubSeq(a, 1, Len(a) - 1))
    ELSE a

RECURSIVE BigFromNat(_)
BigFromNat(n) ==
    IF n = 0 THEN <<>> ELSE <<n % Radix>> \o BigFromNat(n \div Radix)

RECURSIVE BigToNat(_)
BigToNat(a) ==
    IF a = <<>> THEN 0 ELSE Head(a) + Radix * BigToNat(Tail(a))

RECURSIVE BigAddC(_, _, _)
BigAddC(a, b, carry) ==
    IF a = <<>> /\ b = <<>>
    THEN (IF carry = 0 THEN <<>> ELSE <<carry>>)
    ELSE LET x == (IF a = <<>> THEN 0 ELSE Head(a))
                  + (IF b = <<>> THEN 0 ELSE Head(b)) + carry
         IN  <<x % Radix>> \o BigAddC(IF a = <<>> THEN <<>> ELSE Tail(a),
                                      IF b = <<>> THEN <<>> ELSE Tail(b),
                                      x \div Radix)

BigAdd(a, b) == BigAddC(a, b, 0)

\* a - b - borrow, for a >= b + borrow
RECURSIVE BigSubB(_, _, _)
BigSubB(a, b, borrow) ==
    IF a = <<>> THEN <<>>
    ELSE LET x == Head(a) - (IF b = <<>> THEN 0 ELSE Head(b)) - borrow
         IN  <<IF x < 0 THEN x + Radix ELSE x>>
             \o BigSubB(Tail(a), IF b = <<>> THEN <<>> ELSE Tail(b),
                        IF x < 0 THEN 1 ELSE 0)

BigSub(a, b) == BigNorm(BigSubB(a, b, 0))

\* compares limbs i, i-1, ..., 1 of two naturals of the same length
RECURSIVE BigCmpAt(_, _, _)
BigCmpAt(a, b, i) ==
    IF i = 0 THEN 0
    ELSE IF a[i] < b[i] THEN -1
    ELSE IF a[i] > b[i] THEN 1
    ELSE BigCmpAt(a, b, i - 1)

\* -1, 0 or 1 as a < b, a = b or a > b
BigCmp(a, b) ==
    IF Len(a) < Len(b) THEN -1
    ELSE IF Len(a) > Len(b) THEN 1
    ELSE BigCmpAt(a, b, Len(a))

\* a * k + carry, for k <= Radix
RECURSIVE BigMulSmallC(_, _, _)
BigMulSmallC(a, k, carry) ==
    IF a = <<>> THEN (IF carry = 0 THEN <<>> ELSE <<carry>>)
    ELSE LET x == Head(a) * k + carry
         IN  <<x % Radix>> \o BigMulSmallC(Tail(a), k, x \div Radix)

BigMulSmall(a, k) == BigNorm(BigMulSmallC(a, k, 0))

\* quotient q and remainder r of a by k, for 0 < k <= Radix
RECURSIVE BigDivSmallR(_, _)
BigDivSmallR(a, k) ==
    IF a = <<>> THEN [q |-> <<>>, r |-> 0]
    ELSE LET hi == BigDivSmallR(Tail(a), k)
             x  == hi.r * Radix + Head(a)
         IN  [q |-> <<x \div k>> \o hi.q, r |-> x % k]

BigDivSmall(a, k) == BigNorm(BigDivSmallR(a, k).q)

RECURSIVE BitLenSmall(_)
BitLenSmall(n) == IF n = 0 THEN 0 ELSE 1 + BitLenSmall(n \div 2)

BigBitLen(a) ==
    IF a = <<>> THEN 0 ELSE 15 * (Len(a) - 1) + BitLenSmall(a[Len(a)])

\* a * 2^k
BigShl(a, k) ==
    IF a = <<>> THEN <<>>
    ELSE [i \in 1..(k \div 15) |-> 0] \o BigMulSmall(a, 2^(k % 15))

\* a \div 2^k
BigShr(a, k) ==
    IF k \div 15 >= Len(a) THEN <<>>
    ELSE BigDivSmall(SubSeq(a, (k \div 15) + 1, Len(a)), 2^(k % 15))

BigIsOdd(a) == a # <<>> /\ a[1] % 2 = 1

(***************************************************************************)
(* float64 values.  A finite value is sgn * man * 2^exp with man either    *)
(* zero or a natural of exactly Precision bits; every operation computes   *)
(* the exact result and rounds it to nearest, ties to even, as the         *)
(* hardware does.  The values of rgbToHSL stay far from the subnormal and  *)
(* overflow ranges, so the exponent is unbounded.  nan marks the result of *)
(* a division by zero (0/0 or x/0) and is propagated by every operation.   *)
(***************************************************************************)
Precision == 53

FZero == [sgn |-> 1, man |-> <<>>, exp |-> 0, nan |-> FALSE]

FNaN == [sgn |-> 1, man |-> <<>>, exp |-> 0, nan |-> TRUE]

FIsZero(a) == ~a.nan /\ a.man = <<>>

\* a significand q that rounding up has made one bit too long is halved
FRoundCarry(sgn, q, e) ==
    IF BigBitLen(q) > Precision
    THEN [sgn |-> sgn, man |-> BigShr(q, 1), exp |-> e + 1, nan |-> FALSE]
    ELSE [sgn |-> sgn, man |-> q, exp |-> e, nan |-> FALSE]

\* round to nearest, ties to even: cmp compares the dropped bits with half
\* a unit of q
RoundsUp(q, cmp, sticky) ==
    cmp > 0 \/ (cmp = 0 /\ (sticky \/ BigIsOdd(q)))

\* m has d bits more than Precision; q is m without them
FRoundDrop(sgn, m, e, sticky, d, q) ==
    FRoundCarry(sgn,
                IF RoundsUp(q, BigCmp(BigSub(m, BigShl(q, d)),
                                      BigShl(<<1>>, d - 1)), sticky)
                THEN BigAdd(q, <<1>>) ELSE q,
                e + d)

\* m has n bits
FRoundBits(sgn, m, e, sticky, n) ==
    IF n = 0 THEN FZero
    ELSE IF n <= Precision
    THEN [sgn |-> sgn, man |-> BigShl(m, Precision - n),
          exp |-> e - (Precision - n), nan |-> FALSE]
    ELSE FRoundDrop(sgn, m, e, sticky, n - Precision, BigShr(m, n - Precision))

\* the float64 nearest to sgn * (m + f) * 2^e, where 0 < f < 1 if sticky
\* and f = 0 otherwise; sticky is only passed with m of more than
\* Precision + 1 bits
FRound(sgn, m, e, sticky) == FRoundBits(sgn, m, e, sticky, BigBitLen(m))

\* float64(n) for an int n
FFromInt(n) ==
    IF n < 0 THEN FRound(-1, BigFromNat(-n), 0, FALSE)
    ELSE FRound(1, BigFromNat(n), 0, FALSE)

FNeg(a) == [a EXCEPT !.sgn = -a.sgn]

\* the significand of a scaled to the exponent e <= a.exp
FAlign(a, e) == BigShl(a.man, a.exp - e)

FMinExp(a, b) == IF a.exp < b.exp THEN a.exp ELSE b.exp

\* the sum of sa * x * 2^e and sb * y * 2^e with sa # sb; cmp compares x
\* and y
FAddOpposite(sa, sb, x, y, e, cmp) ==
    IF cmp = 0 THEN FZero
    ELSE FRound(IF cmp > 0 THEN sa ELSE sb,
                IF cmp > 0 THEN BigSub(x, y) ELSE BigSub(y, x), e, FALSE)

\* the sum of sa * x * 2^e and sb * y * 2^e
FAddAligned(sa, sb, x, y, e) ==
    IF sa = sb THEN FRound(sa, BigAdd(x, y), e, FALSE)
    ELSE FAddOpposite(sa, sb, x, y, e, BigCmp(x, y))

\* a + b
FAdd(a, b) ==
    IF a.nan \/ b.nan THEN FNaN
    ELSE IF FIsZero(a) THEN b
    ELSE IF FIsZero(b) THEN a
    ELSE FAddAligned(a.sgn, b.sgn, FAlign(a, FMinExp(a, b)),
                     FAlign(b, FMinExp(a, b)), FMinExp(a, b))

\* a - b
FSub(a, b) == FAdd(a, FNeg(b))

\* a * float64(k) for an int constant 0 < k <= Radix
FMulInt(a, k) ==
    IF a.nan THEN FNaN ELSE FRound(a.sgn, BigMulSmall(a.man, k), a.exp, FALSE)

\* a / 2, exact
FHalf(a) == IF FIsZero(a) \/ a.nan THEN a ELSE [a EXCEPT !.exp = a.exp - 1]

\* n further quotient bits of rem / b by shift and subtract, for rem < b
\* and n <= 15: the bits as a number q, and the remainder r
RECURSIVE DivBits(_, _, _, _)
DivBits(rem, b, q, n) ==
    IF n = 0 THEN [q |-> q, r |-> rem]
    ELSE LET r2 == BigAdd(rem, rem)
         IN  IF BigCmp(r2, b) >= 0
             THEN DivBits(BigSub(r2, b), b, 2 * q + 1, n - 1)
             ELSE DivBits(r2, b, 2 * q, n - 1)

\* k further quotient limbs of rem / b, for rem < b
RECURSIVE DivLimbs(_, _, _)
DivLimbs(rem, b, k) ==
    IF k = 0 THEN [q |-> <<>>, r |-> rem]
    ELSE LET d    == DivBits(rem, b, 0, 15)
             rest == DivLimbs(d.r, b, k - 1)
         IN  [q |-> rest.q \o <<d.q>>, r |-> rest.r]

\* the quotient sgn * (top.d.q + fraction) * 2^e of two significands, top
\* being its leading bit and d the limbs and the remainder that follow
FDivRound(sgn, e, top, d) ==
    FRound(sgn, BigNorm(d.q \o <<top>>), e, d.r # <<>>)

\* x / y for two significands: 60 binary places, x >= y giving the leading
\* bit
FDivSignificands(sgn, e, x, y, ge) ==
    FDivRound(sgn, e, IF ge THEN 1 ELSE 0,
              DivLimbs(IF ge THEN BigSub(x, y) ELSE x, y, 4))

\* a / b: the quotient of the significands to 60 binary places, which is
\* Precision + 2 bits at least, the remainder as the sticky bit
FDiv(a, b) ==
    IF a.nan \/ b.nan \/ FIsZero(b) THEN FNaN
    ELSE IF FIsZero(a) THEN FZero
    ELSE FDivSignificands(a.sgn * b.sgn, a.exp - b.exp - 60, a.man, b.man,
                          BigCmp(a.man, b.man) >= 0)

\* -1, 0 or 1 as a < b, a = b or a > b (finite a and b)
FCmp(a, b) ==
    LET sa == IF FIsZero(a) THEN 0 ELSE a.sgn
        sb == IF FIsZero(b) THEN 0 ELSE b.sgn
    IN  IF sa # sb THEN (IF sa < sb THEN -1 ELSE 1)
        ELSE IF sa = 0 THEN 0
        ELSE sa * BigCmp(FAlign(a, FMinExp(a, b)), FAlign(b, FMinExp(a, b)))

\* a < b and a == b; every comparison with NaN is false
FLess(a, b) == ~a.nan /\ ~b.nan /\ FCmp(a, b) < 0

FEq(a, b) == ~a.nan /\ ~b.nan /\ FCmp(a, b) = 0

\* math.Min and math.Max, which return NaN if either argument is NaN
MathMin(a, b) == IF a.nan \/ b.nan THEN FNaN ELSE IF FLess(b, a) THEN b ELSE a

MathMax(a, b) == IF a.nan \/ b.nan THEN FNaN ELSE IF FLess(a, b) THEN b ELSE a

\* the value int(NaN) has on amd64 is the least int64; the model only needs
\* it to lie outside every range a colour component can have
IntOfNaN == -(2^30)


\* int(a) without math.Round: truncation towards zero
RoundToInt_trunc(a) ==
    IF a.nan THEN IntOfNaN
    ELSE IF a.exp >= 0 THEN a.sgn * BigToNat(BigShl(a.man, a.exp))
    ELSE a.sgn * BigToNat(BigShr(a.man, -a.exp))

\* |a| = (t + fraction) * 1 with d binary places: t, and one more if the
\* fraction is a half or more
RoundAway(man, d, t) ==
    BigToNat(t) + (IF BigCmp(BigSub(man, BigShl(t, d)), BigShl(<<1>>, d - 1)) >= 0
                   THEN 1 ELSE 0)

\* int(math.Round(a)): the nearest integer, halves away from zero
RoundToInt(a) ==
    IF a.nan THEN IntOfNaN
    ELSE IF a.exp >= 0 THEN a.sgn * BigToNat(BigShl(a.man, a.exp))
    ELSE a.sgn * RoundAway(a.man, -a.exp, BigShr(a.man, -a.exp))

(***************************************************************************)
(* rgbToHSL                                                                *)
(***************************************************************************)
F255 == FFromInt(255)

F360 == FFromInt(360)


\* the cases tested in the order b, g, r
HueCase_bgr(v, r, g, b) ==
    IF FEq(v, b) THEN "b"
    ELSE IF FEq(v, g) THEN "g"
    ELSE IF FEq(v, r) THEN "r"
    ELSE "none"

\* the case of `switch v` that is taken: the first of r, g, b equal to v
HueCase(v, r, g, b) ==
    IF FEq(v, r) THEN "r"
    ELSE IF FEq(v, g) THEN "g"
    ELSE IF FEq(v, b) THEN "b"
    ELSE "none"


\* the offsets of the g and b cases exchanged
HueSextant_swapped(case, r, g, b, c) ==
    IF case = "r" THEN FAdd(FFromInt(0), FDiv(FSub(g, b), c))
    ELSE IF case = "g" THEN FAdd(FFromInt(4), FDiv(FSub(b, r), c))
    ELSE IF case = "b" THEN FAdd(FFromInt(2), FDiv(FSub(r, g), c))
    ELSE FZero

\* the difference of the b case taken the other way round
HueSextant_blueSign(case, r, g, b, c) ==
    IF case = "r" THEN FAdd(FFromInt(0), FDiv(FSub(g, b), c))
    ELSE IF case = "g" THEN FAdd(FFromInt(2), FDiv(FSub(b, r), c))
    ELSE IF case = "b" THEN FAdd(FFromInt(4), FDiv(FSub(g, r), c))
    ELSE FZero

\* h as the case assigns it; h stays 0.0 if no case matches
HueSextant(case, r, g, b, c) ==
    IF case = "r" THEN FAdd(FFromInt(0), FDiv(FSub(g, b), c))
    ELSE IF case = "g" THEN FAdd(FFromInt(2), FDiv(FSub(b, r), c))
    ELSE IF case = "b" THEN FAdd(FFromInt(4), FDiv(FSub(r, g), c))
    ELSE FZero

\* h *= 60
HueScale(h) == FMulInt(h, 60)


\* a negative h left as it is
HueWrap_none(h) == h

\* if h < 0 { h += 360 }
HueWrap(h) == IF FLess(h, FZero) THEN FAdd(h, F360) ELSE h

\* the divisor of s
SatDivisor(l) == MathMin(l, FSub(FFromInt(1), l))


\* no achromatic case
IsAchromatic_never(c) == FALSE

\* c == 0
IsAchromatic(c) == FEq(c, FZero)

\* r, g and b
Unit(channel) == FDiv(FFromInt(channel), F255)

\* The returned triple (hue, sat, light), and what the call evaluated on
\* the way: the case taken, the float64 values before the final rounding,
\* whether 360 was added, the divisors of the divisions by c and by
\* min(l, 1-l) in the order they were made, and the locals r, g, b and c.
rgbToHSL_return(r, g, b, c, l, case, h60, h, sd, s) ==
    [hue |-> RoundToInt(h), sat |-> RoundToInt(FMulInt(s, 100)),
     light |-> RoundToInt(FMulInt(l, 100)),
     case |-> case, wrapped |-> FLess(h60, FZero),
     divisors |-> IF case = "none" THEN <<sd>> ELSE <<c, sd>>,
     h |-> h, s |-> s, l |-> l, r |-> r, g |-> g, b |-> b, c |-> c]

\* from `h *= 60` on, and s
rgbToHSL_scaled(r, g, b, v, c, l, case, h60, sd) ==
    rgbToHSL_return(r, g, b, c, l, case, h60, HueWrap(h60), sd,
                    FDiv(FSub(v, l), sd))

\* the switch on v
rgbToHSL_switch(r, g, b, v, c, l, case) ==
    rgbToHSL_scaled(r, g, b, v, c, l, case,
                    HueScale(HueSextant(case, r, g, b, c)), SatDivisor(l))

\* from `if c == 0` on
rgbToHSL_chroma(r, g, b, max, c, l) ==
    IF IsAchromatic(c)
    THEN [hue |-> 0, sat |-> 0, light |-> RoundToInt(FMulInt(l, 100)),
          case |-> "achromatic", wrapped |-> FALSE, divisors |-> <<>>,
          h |-> FZero, s |-> FZero, l |-> l,
          r |-> r, g |-> g, b |-> b, c |-> c]
    ELSE rgbToHSL_switch(r, g, b, max, c, l, HueCase(max, r, g, b))

\* c and l
rgbToHSL_minmax(r, g, b, min, max) ==
    rgbToHSL_chroma(r, g, b, max, FSub(max, min), FHalf(FAdd(max, min)))

\* min and max
rgbToHSL_units(r, g, b) ==
    rgbToHSL_minmax(r, g, b, MathMin(MathMin(r, g), b), MathMax(MathMax(r, g), b))

rgbToHSL(red, green, blue) ==
    rgbToHSL_units(Unit(red), Unit(green), Unit(blue))

(***************************************************************************)
(* The State object and its JSON encoding.  A nil pointer is the empty     *)
(* sequence and a pointer to p the sequence <<p>>; a JSON object is a      *)
(* function from its keys to its values.                                   *)
(***************************************************************************)
OnProperty(value) == [Value |-> value]

BrightnessProperty(value) ==
    [Min |-> <<>>, Max |-> <<>>, Value |-> value, Duration |-> 0]

ColorTemperatureProperty(value) == [Min |-> <<>>, Max |-> <<>>, Value |-> value]

HueProperty(value) == [Min |-> <<>>, Max |-> <<>>, Value |-> value]

SaturationProperty(value) == [Min |-> <<>>, Max |-> <<>>, Value |-> value]

\* the zero value of State
State ==
    [On |-> <<>>, Brightness |-> <<>>, ColorTemperature |-> <<>>,
     Hue |-> <<>>, Saturation |-> <<>>, ColorMode |-> ""]

\* json.Marshal of a property: "value" always, "min", "max" and "duration"
\* only if not nil and not zero (omitempty)
MarshalProperty(p) ==
    LET keys == {"value"}
                \cup (IF "Min" \in DOMAIN p /\ p.Min # <<>> THEN {"min"} ELSE {})
                \cup (IF "Max" \in DOMAIN p /\ p.Max # <<>> THEN {"max"} ELSE {})
                \cup (IF "Duration" \in DOMAIN p /\ p.Duration # 0
                      THEN {"duration"} ELSE {})
    IN  [k \in keys |->
            IF k = "value" THEN p.Value
            ELSE IF k = "min" THEN p.Min[1]
            ELSE IF k = "max" THEN p.Max[1]
            ELSE p.Duration]


\* json.Marshal of a State whose fields are not omitempty: a nil pointer is
\* encoded as null
MarshalState_noOmit(state) ==
    [k \in {"on", "brightness", "ct", "hue", "sat", "colorMode"} |->
        IF k = "on"
        THEN (IF state.On = <<>> THEN "null" ELSE MarshalProperty(state.On[1]))
        ELSE IF k = "brightness"
        THEN (IF state.Brightness = <<>> THEN "null"
              ELSE MarshalProperty(state.Brightness[1]))
        ELSE IF k = "ct"
        THEN (IF state.ColorTemperature = <<>> THEN "null"
              ELSE MarshalProperty(state.ColorTemperature[1]))
        ELSE IF k = "hue"
        THEN (IF state.Hue = <<>> THEN "null" ELSE MarshalProperty(state.Hue[1]))
        ELSE IF k = "sat"
        THEN (IF state.Saturation = <<>> THEN "null"
              ELSE MarshalProperty(state.Saturation[1]))
        ELSE state.ColorMode]

\* json.Marshal of a State: every field is omitempty
MarshalState(state) ==
    LET keys == (IF state.On # <<>> THEN {"on"} ELSE {})
                \cup (IF state.Brightness # <<>> THEN {"brightness"} ELSE {})
                \cup (IF state.ColorTemperature # <<>> THEN {"ct"} ELSE {})
                \cup (IF state.Hue # <<>> THEN {"hue"} ELSE {})
                \cup (IF state.Saturation # <<>> THEN {"sat"} ELSE {})
                \cup (IF state.ColorMode # "" THEN {"colorMode"} ELSE {})
    IN  [k \in keys |->
            IF k = "on" THEN MarshalProperty(state.On[1])
            ELSE IF k = "brightness" THEN MarshalProperty(state.Brightness[1])
            ELSE IF k = "ct" THEN MarshalProperty(state.ColorTemperature[1])
            ELSE IF k = "hue" THEN MarshalProperty(state.Hue[1])
            ELSE IF k = "sat" THEN MarshalProperty(state.Saturation[1])
            ELSE state.ColorMode]

\* json.Marshal of an effectsSelectRequest
MarshalEffectsSelect(name) == [select |-> name]

(***************************************************************************)
(* The Client operations.  Each takes the outcome of the HTTP exchange     *)
(* (net: TRUE if http.NewRequest and client.Do succeed) and yields the     *)
(* PUT requests it issued, each with the error Put returned for it, and    *)
(* the error the operation returns.  json.Marshal cannot fail on these     *)
(* types, so the `return err` after it is never taken.                     *)
(***************************************************************************)
Put(path, body, net) ==
    [method |-> "PUT", path |-> path, body |-> body,
     err |-> IF net THEN "nil" ELSE "neterr"]

Off(net) ==
    LET p == Put("state", MarshalState([State EXCEPT !.On = <<OnProperty(FALSE)>>]), net)
    IN  [puts |-> <<p>>, ret |-> p.err]

On(net) ==
    LET p == Put("state", MarshalState([State EXCEPT !.On = <<OnProperty(TRUE)>>]), net)
    IN  [puts |-> <<p>>, ret |-> p.err]

SelectEffect(name, net) ==
    LET p == Put("effects/select", MarshalEffectsSelect(name), net)
    IN  [puts |-> <<p>>, ret |-> "nil"]


\* SetBrightness returning the error of Put
SetBrightness_propagate(brightness, net) ==
    LET p == Put("state",
                 MarshalState([State EXCEPT
                     !.Brightness = <<BrightnessProperty(brightness)>>]), net)
    IN  [puts |-> <<p>>, ret |-> p.err]

SetBrightness(brightness, net) ==
    LET p == Put("state",
                 MarshalState([State EXCEPT
                     !.Brightness = <<BrightnessProperty(brightness)>>]), net)
    IN  [puts |-> <<p>>, ret |-> "nil"]

SetColorTemperature(temperature, net) ==
    LET p == Put("state",
                 MarshalState([State EXCEPT
                     !.ColorTemperature = <<ColorTemperatureProperty(temperature)>>]),
                 net)
    IN  [puts |-> <<p>>, ret |-> "nil"]


\* SetHSL with hue and saturation exchanged
SetHSL_swapped(hue, sat, lightness, net) ==
    LET p == Put("state",
                 MarshalState([State EXCEPT
                     !.Brightness = <<BrightnessProperty(lightness)>>,
                     !.Hue        = <<HueProperty(sat)>>,
                     !.Saturation = <<SaturationProperty(hue)>>]), net)
    IN  [puts |-> <<p>>, ret |-> "nil"]

SetHSL(hue, sat, lightness, net) ==
    LET p == Put("state",
                 MarshalState([State EXCEPT
                     !.Brightness = <<BrightnessProperty(lightness)>>,
                     !.Hue        = <<HueProperty(hue)>>,
                     !.Saturation = <<SaturationProperty(sat)>>]), net)
    IN  [puts |-> <<p>>, ret |-> "nil"]

\* return c.SetHSL(h, s, l), x being what rgbToHSL has returned; the
\* conversion is kept with the result
SetRGB_return(x, net) == SetHSL(x.hue, x.sat, x.light, net) @@ [conv |-> <<x>>]

SetRGB(red, green, blue, net) == SetRGB_return(rgbToHSL(red, green, blue), net)

(***************************************************************************)
(* The state machine: a caller makes one call at a time.                   *)
(***************************************************************************)
MaxChannel == 255

LowRun == 1

HighRun == 0

\* the channel values of the calls: both ends of the range, and the values
\* of the reference colours and of the inputs whose exact hue or
\* saturation lies halfway between two integers
Channels ==
    (0..LowRun) \cup ((MaxChannel - HighRun)..MaxChannel)
    \cup {7, 8, 24, 39, 72, 105, 127, 128}

\* the int arguments of the other calls; the client validates none
IntArgs == ((-1)..LowRun) \cup {100, 6500}

EffectNames == {"Flames", "Forest"}

VARIABLES
    pc,     \* "idle", or "returned" once the call has returned
    op,     \* the operation called
    args,   \* its arguments
    puts,   \* the PUT requests it issued
    ret,    \* the error it returned
    conv    \* the rgbToHSL conversions it made

vars == <<pc, op, args, puts, ret, conv>>

Init ==
    /\ pc = "idle"
    /\ op = "none"
    /\ args = <<>>
    /\ puts = <<>>
    /\ ret = "nil"
    /\ conv = <<>>

CallOff ==
    /\ pc = "idle"
    /\ \E net \in BOOLEAN :
          \E x \in {Off(net)} :
              /\ pc' = "returned"
              /\ op' = "Off"
              /\ args' = <<>>
              /\ puts' = x.puts
              /\ ret' = x.ret
              /\ conv' = <<>>

CallOn ==
    /\ pc = "idle"
    /\ \E net \in BOOLEAN :
          \E x \in {On(net)} :
              /\ pc' = "returned"
              /\ op' = "On"
              /\ args' = <<>>
              /\ puts' = x.puts
              /\ ret' = x.ret
              /\ conv' = <<>>

CallSelectEffect ==
    /\ pc = "idle"
    /\ \E name \in EffectNames, net \in BOOLEAN :
          \E x \in {SelectEffect(name, net)} :
              /\ pc' = "returned"
              /\ op' = "SelectEffect"
              /\ args' = <<name>>
              /\ puts' = x.puts
              /\ ret' = x.ret
              /\ conv' = <<>>

CallSetBrightness ==
    /\ pc = "idle"
    /\ \E brightness \in IntArgs, net \in BOOLEAN :
          \E x \in {SetBrightness(brightness, net)} :
              /\ pc' = "returned"
              /\ op' = "SetBrightness"
              /\ args' = <<brightness>>
              /\ puts' = x.puts
              /\ ret' = x.ret
              /\ conv' = <<>>

CallSetColorTemperature ==
    /\ pc = "idle"
    /\ \E temperature \in IntArgs, net \in BOOLEAN :
          \E x \in {SetColorTemperature(temperature, net)} :
              /\ pc' = "returned"
              /\ op' = "SetColorTemperature"
              /\ args' = <<temperature>>
              /\ puts' = x.puts
              /\ ret' = x.ret
              /\ conv' = <<>>

CallSetHSL ==
    /\ pc = "idle"
    /\ \E hue \in IntArgs, sat \in IntArgs, lightness \in IntArgs,
          net \in BOOLEAN :
          \E x \in {SetHSL(hue, sat, lightness, net)} :
              /\ pc' = "returned"
              /\ op' = "SetHSL"
              /\ args' = <<hue, sat, lightness>>
              /\ puts' = x.puts
              /\ ret' = x.ret
              /\ conv' = <<>>

CallSetRGB ==
    /\ pc = "idle"
    /\ \E red \in Channels, green \in Channels, blue \in Channels,
          net \in BOOLEAN :
          \E x \in {SetRGB(red, green, blue, net)} :
              /\ pc' = "returned"
              /\ op' = "SetRGB"
              /\ args' = <<red, green, blue>>
              /\ puts' = x.puts
              /\ ret' = x.ret
              /\ conv' = x.conv

\* the caller has the result and is ready for its next call
NextCall ==
    /\ pc = "returned"
    /\ pc' = "idle"
    /\ op' = "none"
    /\ args' = <<>>
    /\ puts' = <<>>
    /\ ret' = "nil"
    /\ conv' = <<>>

Next ==
    \/ CallOff
    \/ CallOn
    \/ CallSelectEffect
    \/ CallSetBrightness
    \/ CallSetColorTemperature
    \/ CallSetHSL
    \/ CallSetRGB
    \/ NextCall

Spec == Init /\ [][Next]_vars

(***************************************************************************)
(* Exact arithmetic on the integer channel values, against which the       *)
(* float64 results are checked.                                            *)
(***************************************************************************)
Min2(x, y) == IF x < y THEN x ELSE y

Max2(x, y) == IF x < y THEN y ELSE x

\* the rational n/d, n >= 0 and d > 0, rounded to the nearest integer,
\* halves away from zero
RoundHalfAway(n, d) == (2 * n + d) \div (2 * d)

\* n/d lies exactly halfway between two integers
IsHalf(n, d) == (2 * n) % d = 0 /\ ((2 * n) \div d) % 2 = 1

\* k is an integer nearest to n/d
IsNearest(k, n, d) == 2 * d * k - 2 * n <= d /\ 2 * n - 2 * d * k <= d

\* a call of SetRGB has returned
Converted == pc = "returned" /\ op = "SetRGB"

Chromatic == Converted /\ ~(args[1] = args[2] /\ args[2] = args[3])

ChMax == Max2(Max2(args[1], args[2]), args[3])

ChMin == Min2(Min2(args[1], args[2]), args[3])

Chroma == ChMax - ChMin

\* the case the order red, green, blue selects
ExactCase ==
    IF args[1] = ChMax THEN "r" ELSE IF args[2] = ChMax THEN "g" ELSE "b"

\* Chroma times the hue in degrees of a case, before 360 is added
ExactHueNum(case) ==
    IF case = "r" THEN 60 * (args[2] - args[3])
    ELSE IF case = "g" THEN 60 * (2 * Chroma + (args[3] - args[1]))
    ELSE 60 * (4 * Chroma + (args[1] - args[2]))

\* the same with 360 added if negative
ExactHueWrapped(case) ==
    IF ExactHueNum(case) < 0 THEN ExactHueNum(case) + 360 * Chroma
    ELSE ExactHueNum(case)

\* the divisor of the exact saturation, times 510
ExactSatDen == Min2(ChMax + ChMin, 2 * MaxChannel - ChMax - ChMin)

\* the float64 f >= 0 is within 2^-36 of n/d, for n >= 0 and d > 0
FNear(f, n, d) ==
    /\ ~f.nan
    /\ IF FIsZero(f) THEN n = 0
       ELSE /\ f.sgn = 1
            /\ f.exp <= -36
            /\ LET x == BigMulSmall(f.man, d)
                   y == BigShl(BigFromNat(n), -f.exp)
                   e == IF BigCmp(x, y) >= 0 THEN BigSub(x, y) ELSE BigSub(y, x)
               IN  BigCmp(e, BigShl(BigFromNat(d), -f.exp - 36)) <= 0

(***************************************************************************)
(* C1: for every input in [0, 255]^3 rgbToHSL returns a hue h with         *)
(* 0 <= h < 360, a saturation in [0, 100] and a lightness in [0, 100].     *)
(***************************************************************************)
C1_OutputRanges ==
    Converted =>
        /\ 0 <= conv[1].hue /\ conv[1].hue < 360
        /\ 0 <= conv[1].sat /\ conv[1].sat <= 100
        /\ 0 <= conv[1].light /\ conv[1].light <= 100

(***************************************************************************)
(* C2: for an achromatic input (v, v, v) rgbToHSL returns hue 0,           *)
(* saturation 0 and lightness round(100 * v / 255), from the achromatic    *)
(* branch, without evaluating the hue or the saturation formula.           *)
(***************************************************************************)
C2_Achromatic ==
    (Converted /\ args[1] = args[2] /\ args[2] = args[3]) =>
        /\ conv[1].hue = 0
        /\ conv[1].sat = 0
        /\ conv[1].light = RoundHalfAway(100 * args[1], MaxChannel)
        /\ conv[1].case = "achromatic"
        /\ conv[1].divisors = <<>>

C2_Witness ==
    Converted /\ args = <<7, 7, 7>> /\ conv[1].light = 3
    /\ conv[1].case = "achromatic"

(***************************************************************************)
(* C3: rgbToHSL maps pure red to (0, 100, 50), pure green to               *)
(* (120, 100, 50), pure blue to (240, 100, 50), and orange (255, 128, 0)   *)
(* to hue 30 with saturation 100.                                          *)
(***************************************************************************)
C3_ReferenceColours ==
    Converted =>
        /\ args = <<255, 0, 0>> =>
              <<conv[1].hue, conv[1].sat, conv[1].light>> = <<0, 100, 50>>
        /\ args = <<0, 255, 0>> =>
              <<conv[1].hue, conv[1].sat, conv[1].light>> = <<120, 100, 50>>
        /\ args = <<0, 0, 255>> =>
              <<conv[1].hue, conv[1].sat, conv[1].light>> = <<240, 100, 50>>
        /\ args = <<255, 128, 0>> => conv[1].hue = 30 /\ conv[1].sat = 100

C3_Witness ==
    Converted /\ args = <<0, 0, 255>> /\ conv[1].hue = 240 /\ conv[1].case = "b"

(***************************************************************************)
(* C4: rgbToHSL is total on [0, 255]^3 and never divides by zero: with a   *)
(* non-zero chroma the saturation divisor min(l, 1 - l) is strictly        *)
(* positive, and with a zero chroma it returns before any division by c or *)
(* by min(l, 1 - l).                                                       *)
(***************************************************************************)
C4_NoDivisionByZero ==
    Converted =>
        /\ Len(conv) = 1
        /\ ~conv[1].h.nan /\ ~conv[1].s.nan /\ ~conv[1].l.nan
        /\ conv[1].hue # IntOfNaN /\ conv[1].sat # IntOfNaN
        /\ conv[1].light # IntOfNaN
        /\ \A i \in 1..Len(conv[1].divisors) :
              ~conv[1].divisors[i].nan /\ ~FIsZero(conv[1].divisors[i])
        /\ IF Chroma = 0 THEN conv[1].divisors = <<>>
           ELSE /\ Len(conv[1].divisors) = 2
                /\ FEq(conv[1].divisors[1], conv[1].c)
                /\ FLess(FZero, conv[1].divisors[2])

C4_Witness ==
    Converted /\ args = <<255, 128, 255>> /\ Len(conv[1].divisors) = 2
    /\ FLess(FZero, conv[1].divisors[2])

(***************************************************************************)
(* C5: SetRGB converts its input once and issues exactly one PUT to        *)
(* "state" whose body carries the converter's output unchanged:            *)
(* brightness.value = lightness, hue.value = hue, sat.value = saturation.  *)
(***************************************************************************)
C5_SetRGBForwards ==
    Converted =>
        /\ Len(conv) = 1
        /\ Len(puts) = 1
        /\ puts[1].method = "PUT"
        /\ puts[1].path = "state"
        /\ puts[1].body = [brightness |-> [value |-> conv[1].light],
                           hue        |-> [value |-> conv[1].hue],
                           sat        |-> [value |-> conv[1].sat]]

C5_Witness ==
    Converted /\ args = <<255, 128, 0>> /\ Len(puts) = 1
    /\ puts[1].body.hue.value = 30 /\ puts[1].body.sat.value = 100
    /\ puts[1].body.brightness.value = 50

(***************************************************************************)
(* C6: for a chromatic input the hue case is chosen by testing the         *)
(* channels against max in the order red, green, blue; the hue is          *)
(* 60 * ((green - blue) / c) in the red case, 60 * (2 + (blue - red) / c)  *)
(* in the green case and 60 * (4 + (red - green) / c) in the blue case;    *)
(* and 360 is added exactly when that value is negative.  The float64 hue  *)
(* is compared with the exact value of the formula to within 2^-36.        *)
(***************************************************************************)
C6_HueCaseOrder ==
    Chromatic =>
        /\ conv[1].case = ExactCase
        /\ conv[1].wrapped = (ExactHueNum(ExactCase) < 0)
        /\ FNear(conv[1].h, ExactHueWrapped(ExactCase), Chroma)

C6_Witness ==
    Chromatic /\ args = <<255, 0, 255>> /\ conv[1].case = "r"
    /\ conv[1].wrapped

(***************************************************************************)
(* C7 as claimed: for a chromatic input rgbToHSL returns the exact values  *)
(* of h, 100 * s and 100 * l rounded half away from zero.                  *)
(***************************************************************************)
C7_ExactRounding ==
    Chromatic =>
        /\ conv[1].hue = RoundHalfAway(ExactHueWrapped(ExactCase), Chroma)
        /\ conv[1].sat = RoundHalfAway(100 * Chroma, ExactSatDen)
        /\ conv[1].light = RoundHalfAway(100 * (ChMax + ChMin), 2 * MaxChannel)

(***************************************************************************)
(* C7 as amended: for a chromatic input each returned component is an      *)
(* integer nearest to the exact value of h, 100 * s or 100 * l, and it is  *)
(* that value rounded half away from zero unless the exact value lies      *)
(* halfway between two integers (where the float64 error of the            *)
(* intermediate results decides); the lightness is always the exact value  *)
(* rounded half away from zero; and (8, 1, 0), of exact hue 7.5, gets 8.   *)
(***************************************************************************)
C7_NearestInteger ==
    Chromatic =>
        /\ IsNearest(conv[1].hue, ExactHueWrapped(ExactCase), Chroma)
        /\ ~IsHalf(ExactHueWrapped(ExactCase), Chroma) =>
              conv[1].hue = RoundHalfAway(ExactHueWrapped(ExactCase), Chroma)
        /\ IsNearest(conv[1].sat, 100 * Chroma, ExactSatDen)
        /\ ~IsHalf(100 * Chroma, ExactSatDen) =>
              conv[1].sat = RoundHalfAway(100 * Chroma, ExactSatDen)
        /\ conv[1].light = RoundHalfAway(100 * (ChMax + ChMin), 2 * MaxChannel)
        /\ args = <<8, 1, 0>> => conv[1].hue = 8

C7_Witness ==
    Chromatic /\ args = <<0, 24, 1>> /\ conv[1].hue = 122
    /\ IsHalf(ExactHueWrapped(ExactCase), Chroma)

(***************************************************************************)
(* C8: the state object an operation sends has only the fields the         *)
(* operation sets: On and Off "on"; SetBrightness "brightness";            *)
(* SetColorTemperature "ct"; SetHSL and SetRGB "brightness", "hue" and     *)
(* "sat"; and each of these fields has only its "value".                   *)
(***************************************************************************)
SentKeys ==
    [Off |-> {"on"}, On |-> {"on"}, SetBrightness |-> {"brightness"},
     SetColorTemperature |-> {"ct"}, SetHSL |-> {"brightness", "hue", "sat"},
     SetRGB |-> {"brightness", "hue", "sat"}]

C8_OnlySetFields ==
    (pc = "returned" /\ op \in DOMAIN SentKeys) =>
        /\ Len(puts) = 1
        /\ puts[1].path = "state"
        /\ DOMAIN puts[1].body = SentKeys[op]
        /\ \A k \in DOMAIN puts[1].body : DOMAIN puts[1].body[k] = {"value"}

C8_Witness ==
    pc = "returned" /\ op = "SetColorTemperature" /\ args = <<6500>>
    /\ puts[1].body = [ct |-> [value |-> 6500]]

(***************************************************************************)
(* C9: when the PUT fails, On and Off return its error, but SelectEffect,  *)
(* SetBrightness, SetColorTemperature, SetHSL and SetRGB return nil; the   *)
(* five return nil in every case.                                          *)
(***************************************************************************)
C9_PutErrorDiscarded ==
    pc = "returned" =>
        /\ Len(puts) = 1
        /\ op \in {"On", "Off"} => ret = puts[1].err
        /\ op \in {"SelectEffect", "SetBrightness", "SetColorTemperature",
                   "SetHSL", "SetRGB"} => ret = "nil"

C9_Witness ==
    pc = "returned" /\ op = "SetBrightness" /\ puts[1].err = "neterr"
    /\ ret = "nil"

(***************************************************************************)
(* C10: the order of the cases never changes the result: for a chromatic   *)
(* input in which two channels equal max, every case whose channel equals  *)
(* max yields the same hue: 60 for red == green, 180 for green == blue and *)
(* 300 for red == blue.                                                    *)
(***************************************************************************)
HueOfCase(case) ==
    RoundToInt(HueWrap(HueScale(
        HueSextant(case, conv[1].r, conv[1].g, conv[1].b, conv[1].c))))

TiedCases ==
    (IF args[1] = ChMax THEN {"r"} ELSE {})
    \cup (IF args[2] = ChMax THEN {"g"} ELSE {})
    \cup (IF args[3] = ChMax THEN {"b"} ELSE {})

C10_TieBreakIrrelevant ==
    (Chromatic /\ Cardinality(TiedCases) = 2) =>
        /\ \A k \in TiedCases : HueOfCase(k) = conv[1].hue
        /\ TiedCases = {"r", "g"} => conv[1].hue = 60
        /\ TiedCases = {"g", "b"} => conv[1].hue = 180
        /\ TiedCases = {"r", "b"} => conv[1].hue = 300

C10_Witness ==
    Chromatic /\ args = <<128, 7, 128>> /\ TiedCases = {"r", "b"}
    /\ conv[1].hue = 300 /\ HueOfCase("b") = 300

====
